---- MODULE Spec2Model ----
(***************************************************************************)
(* The request pipeline of the notification-preferences API:               *)
(*   AuthMiddleware.dispatch -> routing ->                                 *)
(*   dependency resolution (get_db, get_current_user, lang) ->             *)
(*   get_notification_types -> exception handlers,                         *)
(* and NotificationType.get_description.                                   *)
(***************************************************************************)
EXTENDS Integers, Sequences, FiniteSets, TLC

(***************************************************************************)
(* Bounds of the model.                                                    *)
(***************************************************************************)
\* the longest list db.query(NotificationType).all() returns
MaxRows == 2

(***************************************************************************)
(* Optional values: Python's None is the empty sequence, a value x is <<x>>.*)
(***************************************************************************)
None == <<>>
Some(x) == <<x>>

(***************************************************************************)
(* Request paths, as sequences of characters (str.startswith is a prefix   *)
(* test on characters).                                                    *)
(***************************************************************************)
PrefixHealth == <<"/", "h", "e", "a", "l", "t", "h">>
PrefixDocs == <<"/", "d", "o", "c", "s">>
PrefixOpenapi == <<"/", "o", "p", "e", "n", "a", "p", "i", ".", "j", "s", "o", "n">>
PrefixRedoc == <<"/", "r", "e", "d", "o", "c">>

PathHealth == PrefixHealth
PathHealthz == PrefixHealth \o <<"z">>
PathDocs == PrefixDocs
PathOpenapi == PrefixOpenapi
PathRedoc == PrefixRedoc
PathListing == <<"/", "a", "p", "i", "/", "n", "o", "t", "i", "f", "i", "c", "a", "t", "i", "o", "n", "s", "/">>
PathOther == <<"/", "a", "p", "i", "/", "h", "e", "a", "l", "t", "h">>

Paths == {PathHealth, PathHealthz, PathDocs, PathOpenapi, PathRedoc, PathListing, PathOther}

StartsWith(s, prefix) ==
    /\ Len(s) >= Len(prefix)
    /\ SubSeq(s, 1, Len(prefix)) = prefix

\* the allow-list without the health prefix
IsExempt_NoHealth(path) ==
    \/ StartsWith(path, PrefixDocs)
    \/ StartsWith(path, PrefixOpenapi)
    \/ StartsWith(path, PrefixRedoc)

\* the allow-list test of AuthMiddleware.dispatch
IsExempt(path) ==
    \/ StartsWith(path, PrefixHealth)
    \/ StartsWith(path, PrefixDocs)
    \/ StartsWith(path, PrefixOpenapi)
    \/ StartsWith(path, PrefixRedoc)

(***************************************************************************)
(* Bearer tokens and the Authorization header.                             *)
(***************************************************************************)
EmptyPayload == {}
UserPayload == {<<"sub", "1">>, <<"username", "testuser">>}
Payloads == {EmptyPayload, UserPayload}

\* form: "malformed" is not a JWT at all; "unprocessable" makes the decoder
\* raise an exception that is no InvalidTokenError (a key the configured
\* algorithm cannot use); "jwt" is a well-formed token.
Tokens ==
    {[form |-> "malformed", sig_ok |-> FALSE, expired |-> FALSE, payload |-> EmptyPayload],
     [form |-> "unprocessable", sig_ok |-> FALSE, expired |-> FALSE, payload |-> EmptyPayload]}
    \cup [form : {"jwt"}, sig_ok : BOOLEAN, expired : BOOLEAN, payload : Payloads]

NoToken == [form |-> "none", sig_ok |-> FALSE, expired |-> FALSE, payload |-> EmptyPayload]

\* the Authorization header of a request: absent, or a scheme and a credential
NoAuthorization == [present |-> FALSE, scheme |-> "", token |-> NoToken]
AuthHeaders ==
    {NoAuthorization}
    \cup [present : {TRUE}, scheme : {"Basic", "Bearer"}, token : Tokens]
    \cup [present : {TRUE}, scheme : {"bearer"}, token : {t \in Tokens : t.expired}]
    \cup {[present |-> TRUE, scheme |-> "Bearer", token |-> NoToken]}

Lower(scheme) ==
    CASE scheme = "Bearer" -> "bearer"
      [] scheme = "Basic" -> "basic"
      [] OTHER -> scheme

\* HTTPBearer(auto_error=False): the credentials, or None
HTTPBearer(header) ==
    IF ~header.present \/ header.scheme = "" \/ header.token = NoToken
    THEN None
    ELSE IF Lower(header.scheme) # "bearer"
    THEN None
    ELSE Some([scheme |-> header.scheme, credentials |-> header.token])

\* jwt.decode(token, JWT_SECRET, algorithms=[JWT_ALGORITHM]): the payload or
\* the exception raised; the signature is verified before the expiry.
JwtDecode(token) ==
    CASE token.form = "unprocessable" -> [raises |-> "Exception", payload |-> EmptyPayload]
      [] token.form = "malformed" -> [raises |-> "InvalidTokenError", payload |-> EmptyPayload]
      [] token.form = "jwt" /\ ~token.sig_ok -> [raises |-> "InvalidTokenError", payload |-> EmptyPayload]
      [] token.form = "jwt" /\ token.sig_ok /\ token.expired ->
            [raises |-> "ExpiredSignatureError", payload |-> EmptyPayload]
      [] OTHER -> [raises |-> "", payload |-> token.payload]

(***************************************************************************)
(* NotificationType rows, as the Record Store returns them.                *)
(***************************************************************************)
\* keys are strings, kept as sequences of code points: "B", "a", "ab"
KeyB == <<66>>
KeyA == <<97>>
KeyAb == <<97, 98>>
Keys == {KeyB, KeyA, KeyAb}

\* the primary key the store assigned to each record
IdOf(key) ==
    CASE key = KeyB -> 2
      [] key = KeyA -> 3
      [] OTHER -> 1

\* a JSON column value: a mapping of language codes to texts, or a value
\* that is no mapping (an array)
NoEntries == [l \in {} |-> ""]
DescEn == [type |-> "object", entries |-> [l \in {"en"} |-> "Email alerts"]]
DescEnFr ==
    [type |-> "object",
     entries |-> [l \in {"en", "fr"} |-> IF l = "en" THEN "Email alerts" ELSE "Alertes par email"]]
DescArray == [type |-> "array", entries |-> NoEntries]
StoredDescriptions == {DescEn, DescEnFr, DescArray}

StoredReasons == {None, Some("Replaced by push notifications")}

Rows ==
    {[id |-> IdOf(k), key |-> k, descriptions |-> d, available |-> a,
      deprecated |-> dep, deprecated_reason |-> why,
      created_at |-> 10 + IdOf(k), updated_at |-> 20 + IdOf(k)] :
        k \in Keys, d \in StoredDescriptions, a \in BOOLEAN, dep \in BOOLEAN,
        why \in StoredReasons}

\* key is a unique column: the lists a query can return hold each key once
RowLists ==
    UNION {{s \in [1..n -> Rows] : \A i, j \in 1..n : i # j => s[i].key # s[j].key} :
            n \in 0..MaxRows}

\* what db.query(NotificationType).all() does: returns rows, in the order the
\* store chooses, or raises
QueryOutcomes ==
    {[raises |-> "", rows |-> s] : s \in RowLists}
    \cup {[raises |-> e, rows |-> <<>>] : e \in {"SQLAlchemyError", "Exception"}}

(***************************************************************************)
(* The body of get_notification_types.                                     *)
(***************************************************************************)
\* Python's < on str: by code point, a proper prefix is smaller
RECURSIVE StrLess(_, _)
StrLess(a, b) ==
    IF b = <<>> THEN FALSE
    ELSE IF a = <<>> THEN TRUE
    ELSE IF Head(a) # Head(b) THEN Head(a) < Head(b)
    ELSE StrLess(Tail(a), Tail(b))

IsAvailable(nt) == nt.available

\* the filter left out: every row is kept
FilterAvailable_KeepAll(rows) == rows

\* "if not nt.available: continue"
FilterAvailable(rows) == SelectSeq(rows, IsAvailable)

\* pydantic's check of NotificationTypeOut: descriptions is a Dict[str, str]
ValidationFails(nt) == nt.descriptions.type # "object"

\* descriptions cut down to the requested language
NotificationTypeOut_Localized(nt, lang) ==
    [id |-> nt.id, key |-> nt.key,
     descriptions |->
        [type |-> nt.descriptions.type,
         entries |-> [l \in (DOMAIN nt.descriptions.entries) \cap {lang} |->
                        nt.descriptions.entries[l]]],
     available |-> nt.available, deprecated |-> nt.deprecated,
     deprecated_reason |-> nt.deprecated_reason,
     created_at |-> nt.created_at, updated_at |-> nt.updated_at]

\* NotificationTypeOut(id=nt.id, key=nt.key, ...)
NotificationTypeOut(nt, lang) ==
    [id |-> nt.id, key |-> nt.key, descriptions |-> nt.descriptions,
     available |-> nt.available, deprecated |-> nt.deprecated,
     deprecated_reason |-> nt.deprecated_reason,
     created_at |-> nt.created_at, updated_at |-> nt.updated_at]

\* list.sort(key=lambda x: x.key): a stable sort, ascending
InsertByKey(x, s) ==
    LET k == Cardinality({i \in 1..Len(s) : ~StrLess(x.key, s[i].key)})
    IN SubSeq(s, 1, k) \o <<x>> \o SubSeq(s, k + 1, Len(s))

\* the sort left out: the order of the store is kept
SortByKey_Unsorted(s) == s

RECURSIVE SortByKey(_)
SortByKey(s) ==
    IF s = <<>> THEN <<>>
    ELSE InsertByKey(s[Len(s)], SortByKey(SubSeq(s, 1, Len(s) - 1)))

(***************************************************************************)
(* NotificationType.get_description.                                       *)
(***************************************************************************)
\* dict.get(k): the value, or None
DictGet(entries, k) == IF k \in DOMAIN entries THEN Some(entries[k]) ELSE None
\* truthiness of what dict.get returned: None and "" are falsy
Truthy(v) == v # None /\ v[1] # ""
\* a or b
PyOr(a, b) == IF Truthy(a) THEN a ELSE b

\* "if not self.descriptions": None, the empty dict and the empty list are falsy
NotDescriptions(d) == d.type = "null" \/ DOMAIN d.entries = {}

\* the accessor without its guard: .get is called on None
GetDescription_NoGuard(d, lang) ==
    IF d.type # "object" THEN [raises |-> "AttributeError", value |-> ""]
    ELSE [raises |-> "",
          value |-> PyOr(PyOr(DictGet(d.entries, lang), DictGet(d.entries, "en")),
                         Some(""))[1]]

\* get_description(self, lang): the string returned, or the exception raised
GetDescription(d, lang) ==
    IF NotDescriptions(d) THEN [raises |-> "", value |-> ""]
    ELSE IF d.type # "object" THEN [raises |-> "AttributeError", value |-> ""]
    ELSE [raises |-> "",
          value |-> PyOr(PyOr(DictGet(d.entries, lang), DictGet(d.entries, "en")),
                         Some(""))[1]]

\* the descriptions the accessor is applied to: no value at all, or a mapping
\* of some of the languages to texts, the empty text among them
AccessorLangs == {"en", "fr", "de"}
AccessorTexts == {"", "Email alerts", "Alertes par email"}
AccessorDescriptions ==
    {[type |-> "null", entries |-> NoEntries]}
    \cup {[type |-> "object", entries |-> e] :
            e \in UNION {[langs -> AccessorTexts] : langs \in SUBSET AccessorLangs}}
\* the lang arguments: "es" is in no mapping
AccessorArguments == AccessorLangs \cup {"es"}

NoCall ==
    [called |-> FALSE, descriptions |-> [type |-> "null", entries |-> NoEntries],
     lang |-> "", raises |-> "", value |-> ""]

(***************************************************************************)
(* Responses.                                                              *)
(***************************************************************************)
AuthRequiredDetail == "Authentication required. Please log in."
SessionExpiredDetail == "Session expired. Please log in again."
InvalidTokenDetail == "Invalid authentication token."
AuthFailedDetail == "Authentication failed. Please log in."
FetchFailedDetail == "Failed to fetch notification types. Please try again later."
InternalErrorDetail == "Internal server error. Please try again later."
ValidationDetail == "Invalid request data."
NotFoundDetail == "Not Found"

NoResponse ==
    [kind |-> "none", status |-> 0, detail |-> "", notification_types |-> <<>>]
\* JSONResponse(status_code=..., content={"detail": ...})
ErrorResponse(status, detail) ==
    [kind |-> "error", status |-> status, detail |-> detail, notification_types |-> <<>>]
\* NotificationTypeListResponse(notification_types=result_types)
ListResponse(items) ==
    [kind |-> "list", status |-> 200, detail |-> "", notification_types |-> items]
\* {"status": "ok"}
HealthResponse ==
    [kind |-> "health", status |-> 200, detail |-> "ok", notification_types |-> <<>>]
\* the generated documentation pages and schema
DocsResponse ==
    [kind |-> "docs", status |-> 200, detail |-> "", notification_types |-> <<>>]

\* one except clause for every failure
ListNotificationTypes_OneHandler(outcome, lang) ==
    IF outcome.raises # "" THEN ErrorResponse(500, InternalErrorDetail)
    ELSE LET kept == FilterAvailable(outcome.rows)
         IN IF \E i \in 1..Len(kept) : ValidationFails(kept[i])
            THEN ErrorResponse(500, InternalErrorDetail)
            ELSE ListResponse(
                    SortByKey([i \in 1..Len(kept) |-> NotificationTypeOut(kept[i], lang)]))

\* get_notification_types, from the query's outcome to the response
ListNotificationTypes(outcome, lang) ==
    IF outcome.raises = "SQLAlchemyError" THEN ErrorResponse(500, FetchFailedDetail)
    ELSE IF outcome.raises # "" THEN ErrorResponse(500, InternalErrorDetail)
    ELSE LET kept == FilterAvailable(outcome.rows)
         IN IF \E i \in 1..Len(kept) : ValidationFails(kept[i])
            THEN ErrorResponse(500, InternalErrorDetail)
            ELSE ListResponse(
                    SortByKey([i \in 1..Len(kept) |-> NotificationTypeOut(kept[i], lang)]))

\* http_exception_handler: the HTTPException's status and detail
HttpExceptionHandler(status, detail) == ErrorResponse(status, detail)
\* validation_exception_handler
ValidationExceptionHandler == ErrorResponse(422, ValidationDetail)
\* unhandled_exception_handler
UnhandledExceptionHandler == ErrorResponse(500, InternalErrorDetail)

(***************************************************************************)
(* Requests: GET requests that reach the application over https.  The     *)
(* CORS and HTTPS-redirect middlewares lie between the gate and the        *)
(* routes and pass such a request on unchanged.                            *)
(***************************************************************************)
\* the lang query parameter: absent (None), or a string
MinLangLength == 2
MaxLangLength == 5
LangParams == {None, Some("en"), Some("fr"), Some("x"), Some("zh-Hant")}

Requests == {"r1"}

RequestInputs ==
    [path : Paths, authorization : AuthHeaders, lang : LangParams]

NoRequest ==
    [path |-> <<>>, authorization |-> NoAuthorization, lang |-> None]
NoOutcome == [raises |-> "none", rows |-> <<>>]

VARIABLES
    pc,          \* where each request is in the pipeline
    request,     \* the request as received
    user,        \* request.state.user: None until the gate attaches the payload
    lang,        \* the lang argument of the handler
    session,     \* the store session of the request: "none", "open", "closed", "failed"
    outcome,     \* what the handler's query returned or raised
    response,    \* the response produced for the request
    accessor     \* a call of get_description: its receiver, argument and result

vars == <<pc, request, user, lang, session, outcome, response, accessor>>
pipeline == <<pc, request, user, lang, session, outcome, response>>

Init ==
    /\ pc = [r \in Requests |-> "idle"]
    /\ request = [r \in Requests |-> NoRequest]
    /\ user = [r \in Requests |-> None]
    /\ lang = [r \in Requests |-> ""]
    /\ session = [r \in Requests |-> "none"]
    /\ outcome = [r \in Requests |-> NoOutcome]
    /\ response = [r \in Requests |-> NoResponse]
    /\ accessor = NoCall

\* a response is produced: the request is done
Respond(r, resp) ==
    /\ response' = [response EXCEPT ![r] = resp]
    /\ pc' = [pc EXCEPT ![r] = "done"]

\* a request arrives, one of inputs
ReceiveFrom(r, inputs) ==
    /\ pc[r] = "idle"
    /\ \E inp \in inputs : request' = [request EXCEPT ![r] = inp]
    /\ pc' = [pc EXCEPT ![r] = "gate"]
    /\ UNCHANGED <<user, lang, session, outcome, response, accessor>>

\* a request arrives
Receive(r) == ReceiveFrom(r, RequestInputs)

\* the except clauses in the wrong order: InvalidTokenError, the base class
\* of ExpiredSignatureError, is caught first
GateResponse_ExceptOrder(req) ==
    IF IsExempt(req.path) THEN NoResponse
    ELSE LET credentials == HTTPBearer(req.authorization)
         IN IF credentials = None \/ Lower(credentials[1].scheme) # "bearer"
            THEN ErrorResponse(401, AuthRequiredDetail)
            ELSE LET decoded == JwtDecode(credentials[1].credentials)
                 IN CASE decoded.raises \in {"InvalidTokenError", "ExpiredSignatureError"} ->
                            ErrorResponse(401, InvalidTokenDetail)
                      [] decoded.raises = "Exception" ->
                            ErrorResponse(401, AuthFailedDetail)
                      [] OTHER -> NoResponse

\* the expired token only logged: no response is returned for it
GateResponse_ExpiredFallsThrough(req) ==
    IF IsExempt(req.path) THEN NoResponse
    ELSE LET credentials == HTTPBearer(req.authorization)
         IN IF credentials = None \/ Lower(credentials[1].scheme) # "bearer"
            THEN ErrorResponse(401, AuthRequiredDetail)
            ELSE LET decoded == JwtDecode(credentials[1].credentials)
                 IN CASE decoded.raises = "InvalidTokenError" ->
                            ErrorResponse(401, InvalidTokenDetail)
                      [] decoded.raises = "Exception" ->
                            ErrorResponse(401, AuthFailedDetail)
                      [] OTHER -> NoResponse

\* the response AuthMiddleware.dispatch returns itself, or NoResponse when it
\* calls call_next
GateResponse(req) ==
    IF IsExempt(req.path) THEN NoResponse
    ELSE LET credentials == HTTPBearer(req.authorization)
         IN IF credentials = None \/ Lower(credentials[1].scheme) # "bearer"
            THEN ErrorResponse(401, AuthRequiredDetail)
            ELSE LET decoded == JwtDecode(credentials[1].credentials)
                 IN CASE decoded.raises = "ExpiredSignatureError" ->
                            ErrorResponse(401, SessionExpiredDetail)
                      [] decoded.raises = "InvalidTokenError" ->
                            ErrorResponse(401, InvalidTokenDetail)
                      [] decoded.raises = "Exception" ->
                            ErrorResponse(401, AuthFailedDetail)
                      [] OTHER -> NoResponse

\* request.state.user after AuthMiddleware.dispatch
GateUser(req) ==
    IF IsExempt(req.path) THEN None
    ELSE LET credentials == HTTPBearer(req.authorization)
         IN IF credentials = None THEN None
            ELSE LET decoded == JwtDecode(credentials[1].credentials)
                 IN IF decoded.raises = "" THEN Some(decoded.payload) ELSE None

\* AuthMiddleware.dispatch
Dispatch(r) ==
    /\ pc[r] = "gate"
    /\ LET resp == GateResponse(request[r])
       IN IF resp # NoResponse
          THEN /\ Respond(r, resp)
               /\ UNCHANGED user
          ELSE /\ user' = [user EXCEPT ![r] = GateUser(request[r])]
               /\ pc' = [pc EXCEPT ![r] = "route"]
               /\ UNCHANGED response
    /\ UNCHANGED <<request, lang, session, outcome, accessor>>

\* the routes of create_app
Route(r) ==
    /\ pc[r] = "route"
    /\ CASE request[r].path = PathHealth -> Respond(r, HealthResponse)
         [] request[r].path \in {PathDocs, PathOpenapi, PathRedoc} -> Respond(r, DocsResponse)
         [] request[r].path = PathListing ->
                /\ pc' = [pc EXCEPT ![r] = "get_db"]
                /\ UNCHANGED response
         [] OTHER -> Respond(r, HttpExceptionHandler(404, NotFoundDetail))
    /\ UNCHANGED <<request, user, lang, session, outcome, accessor>>

\* db: Session = Depends(get_db): the provider yields a session or raises;
\* an exception of a dependency is raised outside the handler's try block
GetDb(r) ==
    /\ pc[r] = "get_db"
    /\ \/ /\ session' = [session EXCEPT ![r] = "open"]
          /\ pc' = [pc EXCEPT ![r] = "get_current_user"]
          /\ UNCHANGED response
       \/ /\ session' = [session EXCEPT ![r] = "failed"]
          /\ Respond(r, UnhandledExceptionHandler)
    /\ UNCHANGED <<request, user, lang, outcome, accessor>>

\* "if not user": None and the empty dict are both falsy
NotUser(u) == u = None \/ u[1] = {}

\* current_user: dict = Depends(get_current_user)
GetCurrentUser(r) ==
    /\ pc[r] = "get_current_user"
    /\ IF NotUser(user[r])
       THEN Respond(r, HttpExceptionHandler(401, AuthRequiredDetail))
       ELSE /\ pc' = [pc EXCEPT ![r] = "query_params"]
            /\ UNCHANGED response
    /\ UNCHANGED <<request, user, lang, session, outcome, accessor>>

\* lang: str = Query("en", min_length=2, max_length=5)
LangValid(l) == Len(l) >= MinLangLength /\ Len(l) <= MaxLangLength
LangArgument(param) == IF param = None THEN "en" ELSE param[1]

QueryParams(r) ==
    /\ pc[r] = "query_params"
    /\ LET l == LangArgument(request[r].lang)
       IN IF LangValid(l)
          THEN /\ lang' = [lang EXCEPT ![r] = l]
               /\ pc' = [pc EXCEPT ![r] = "handler"]
               /\ UNCHANGED response
          ELSE /\ Respond(r, ValidationExceptionHandler)
               /\ UNCHANGED lang
    /\ UNCHANGED <<request, user, session, outcome, accessor>>

\* get_notification_types, the query ending in one of outcomes
GetNotificationTypesFrom(r, outcomes) ==
    /\ pc[r] = "handler"
    /\ \E o \in outcomes :
          /\ outcome' = [outcome EXCEPT ![r] = o]
          /\ Respond(r, ListNotificationTypes(o, lang[r]))
    /\ UNCHANGED <<request, user, lang, session, accessor>>

\* get_notification_types: the query, the assembly, the error translation
GetNotificationTypes(r) == GetNotificationTypesFrom(r, QueryOutcomes)

\* the session closed at the end of the handler's success path only, with
\* no finally around the yield
CloseSession_OnlyOnSuccess(r) ==
    /\ pc[r] = "done"
    /\ session[r] = "open"
    /\ response[r].kind = "list"
    /\ session' = [session EXCEPT ![r] = "closed"]
    /\ UNCHANGED <<pc, request, user, lang, outcome, response, accessor>>

\* the session provider closes the session it yielded once the request is over
CloseSession(r) ==
    /\ pc[r] = "done"
    /\ session[r] = "open"
    /\ session' = [session EXCEPT ![r] = "closed"]
    /\ UNCHANGED <<pc, request, user, lang, outcome, response, accessor>>

Next ==
    \E r \in Requests :
        \/ Receive(r)
        \/ Dispatch(r)
        \/ Route(r)
        \/ GetDb(r)
        \/ GetCurrentUser(r)
        \/ QueryParams(r)
        \/ GetNotificationTypes(r)
        \/ CloseSession(r)

Spec == Init /\ [][Next]_vars

(***************************************************************************)
(* get_description on its own: a record and an argument are drawn, the     *)
(* accessor is called once.                                                *)
(***************************************************************************)
InitDescription ==
    /\ pc = [r \in Requests |-> "idle"]
    /\ request = [r \in Requests |-> NoRequest]
    /\ user = [r \in Requests |-> None]
    /\ lang = [r \in Requests |-> ""]
    /\ session = [r \in Requests |-> "none"]
    /\ outcome = [r \in Requests |-> NoOutcome]
    /\ response = [r \in Requests |-> NoResponse]
    /\ \E d \in AccessorDescriptions, l \in AccessorArguments :
          accessor = [NoCall EXCEPT !.descriptions = d, !.lang = l]

CallGetDescription ==
    /\ ~accessor.called
    /\ LET res == GetDescription(accessor.descriptions, accessor.lang)
       IN accessor' = [accessor EXCEPT !.called = TRUE, !.raises = res.raises,
                                       !.value = res.value]
    /\ UNCHANGED pipeline

NextDescription == CallGetDescription

SpecDescription == InitDescription /\ [][NextDescription]_vars

(***************************************************************************)
(* Concurrent requests and their store sessions: two requests in flight,   *)
(* their steps interleaved in any order.  The server runs every request it *)
(* received to its response and then unwinds its dependencies, so the      *)
(* steps of a received request are weakly fair; a request need not arrive. *)
(***************************************************************************)
ConcurrentRequests == {"r1", "r2"}

ValidToken(payload) ==
    [form |-> "jwt", sig_ok |-> TRUE, expired |-> FALSE, payload |-> payload]
BearerHeader(payload) ==
    [present |-> TRUE, scheme |-> "Bearer", token |-> ValidToken(payload)]

\* the listing requested without a token, with an accepted token (its payload
\* empty or not), with and without a valid lang; and the health check
SessionInputs ==
    [path : {PathListing},
     authorization : {NoAuthorization, BearerHeader(UserPayload), BearerHeader(EmptyPayload)},
     lang : {None, Some("x")}]
    \cup {[path |-> PathHealth, authorization |-> NoAuthorization, lang |-> None]}

SessionRow ==
    [id |-> IdOf(KeyA), key |-> KeyA, descriptions |-> DescEnFr, available |-> TRUE,
     deprecated |-> TRUE, deprecated_reason |-> None,
     created_at |-> 10 + IdOf(KeyA), updated_at |-> 20 + IdOf(KeyA)]

\* the query returns no row, returns one row, or raises
SessionOutcomes ==
    {[raises |-> "", rows |-> <<>>], [raises |-> "", rows |-> <<SessionRow>>]}
    \cup {[raises |-> e, rows |-> <<>>] : e \in {"SQLAlchemyError", "Exception"}}

InitSessions ==
    /\ pc = [r \in ConcurrentRequests |-> "idle"]
    /\ request = [r \in ConcurrentRequests |-> NoRequest]
    /\ user = [r \in ConcurrentRequests |-> None]
    /\ lang = [r \in ConcurrentRequests |-> ""]
    /\ session = [r \in ConcurrentRequests |-> "none"]
    /\ outcome = [r \in ConcurrentRequests |-> NoOutcome]
    /\ response = [r \in ConcurrentRequests |-> NoResponse]
    /\ accessor = NoCall

\* the steps the server takes for a request it has received
Serve(r) ==
    \/ Dispatch(r)
    \/ Route(r)
    \/ GetDb(r)
    \/ GetCurrentUser(r)
    \/ QueryParams(r)
    \/ GetNotificationTypesFrom(r, SessionOutcomes)
    \/ CloseSession(r)

NextSessions ==
    \E r \in ConcurrentRequests :
        \/ ReceiveFrom(r, SessionInputs)
        \/ Dispatch(r)
        \/ Route(r)
        \/ GetDb(r)
        \/ GetCurrentUser(r)
        \/ QueryParams(r)
        \/ GetNotificationTypesFrom(r, SessionOutcomes)
        \/ CloseSession(r)

SpecSessions ==
    /\ InitSessions
    /\ [][NextSessions]_vars
    /\ \A r \in ConcurrentRequests : WF_vars(Serve(r))

(***************************************************************************)
(* Properties.                                                             *)
(***************************************************************************)
Listed(r) == response[r].kind = "list"
Items(r) == response[r].notification_types
Fetched(r) == outcome[r].rows

\* C1: in every successful listing response the items are exactly the stored
\* records with available = true: each available record appears once, and
\* no record with available = false appears.
C1_ListIsExactlyAvailable ==
    \A r \in Requests :
        Listed(r) =>
            /\ \A i \in 1..Len(Fetched(r)) :
                  Fetched(r)[i].available =>
                      Cardinality({j \in 1..Len(Items(r)) :
                                      Items(r)[j].id = Fetched(r)[i].id}) = 1
            /\ \A j \in 1..Len(Items(r)) :
                  \E i \in 1..Len(Fetched(r)) :
                      /\ Fetched(r)[i].id = Items(r)[j].id
                      /\ Fetched(r)[i].available

\* a listing whose store holds an available and an unavailable record
C1_Witness ==
    \E r \in Requests :
        /\ Listed(r)
        /\ Len(Items(r)) = 1
        /\ \E i, j \in 1..Len(Fetched(r)) :
              Fetched(r)[i].available /\ ~Fetched(r)[j].available

\* code point order of keys, stated without recursion: a is a prefix of b, or
\* a is smaller at the first position where they differ
KeyLeq(a, b) ==
    \/ Len(a) <= Len(b) /\ SubSeq(b, 1, Len(a)) = a
    \/ \E i \in 1..Len(a) :
          /\ i <= Len(b)
          /\ a[i] < b[i]
          /\ \A j \in 1..(i - 1) : a[j] = b[j]

\* C7: in every successful listing response the items are in ascending code
\* point order of key: each item's key is at most the key of the next item.
C7_SortedByKey ==
    \A r \in Requests :
        Listed(r) =>
            \A j \in 1..(Len(Items(r)) - 1) :
                KeyLeq(Items(r)[j].key, Items(r)[j + 1].key)

\* a listing of two records the store returned in descending order of key
C7_Witness ==
    \E r \in Requests :
        /\ Listed(r)
        /\ Len(Items(r)) = 2
        /\ ~KeyLeq(Fetched(r)[1].key, Fetched(r)[2].key)

\* C10: every item of a successful listing response carries the deprecated
\* flag, the deprecated_reason and the full descriptions mapping of its
\* stored record, whatever lang was requested, and every available record
\* has such an item.
SameFields(item, nt) ==
    /\ item.id = nt.id
    /\ item.key = nt.key
    /\ item.deprecated = nt.deprecated
    /\ item.deprecated_reason = nt.deprecated_reason
    /\ item.descriptions = nt.descriptions

C10_FieldsUnchanged ==
    \A r \in Requests :
        Listed(r) =>
            /\ \A j \in 1..Len(Items(r)) :
                  \E i \in 1..Len(Fetched(r)) : SameFields(Items(r)[j], Fetched(r)[i])
            /\ \A i \in 1..Len(Fetched(r)) :
                  Fetched(r)[i].available =>
                      \E j \in 1..Len(Items(r)) : SameFields(Items(r)[j], Fetched(r)[i])

\* a listing requested in French holding a deprecated record without a
\* reason and with descriptions in two languages
C10_Witness ==
    \E r \in Requests :
        /\ Listed(r)
        /\ lang[r] = "fr"
        /\ \E j \in 1..Len(Items(r)) :
              /\ Items(r)[j].deprecated
              /\ Items(r)[j].deprecated_reason = None
              /\ Items(r)[j].descriptions = DescEnFr

(***************************************************************************)
(* Properties of the gate.  The paths and the credentials are classified   *)
(* here from the request alone.                                            *)
(***************************************************************************)
ExemptPaths == {PathHealth, PathHealthz, PathDocs, PathOpenapi, PathRedoc}
NonExemptPaths == {PathListing, PathOther}

Done(r) == pc[r] = "done"
\* the request carries a token under the Bearer scheme
BearerToken(req) ==
    /\ req.authorization.present
    /\ req.authorization.scheme \in {"Bearer", "bearer"}
    /\ req.authorization.token # NoToken
\* the Token Validator accepts the token: well-formed, rightly signed, not expired
TokenAccepted(req) ==
    /\ BearerToken(req)
    /\ req.authorization.token.form = "jwt"
    /\ req.authorization.token.sig_ok
    /\ ~req.authorization.token.expired

\* C2: on a non-exempt path the gate answers 401 with a fixed message per
\* failure: no header or a scheme other than Bearer, "Authentication
\* required. Please log in."; an expired token (rightly signed), "Session
\* expired. Please log in again."; a malformed or wrongly signed token,
\* "Invalid authentication token."; any other failure of the validation,
\* "Authentication failed. Please log in.".
C2_GateMessages ==
    \A r \in Requests :
        (Done(r) /\ request[r].path \in NonExemptPaths) =>
            LET auth == request[r].authorization
                token == auth.token
            IN /\ (~auth.present \/ auth.scheme \notin {"Bearer", "bearer"}) =>
                      response[r] = ErrorResponse(401, AuthRequiredDetail)
               /\ (BearerToken(request[r]) /\ token.form = "jwt" /\ token.sig_ok
                        /\ token.expired) =>
                      response[r] = ErrorResponse(401, SessionExpiredDetail)
               /\ (BearerToken(request[r])
                        /\ (token.form = "malformed" \/ (token.form = "jwt" /\ ~token.sig_ok))) =>
                      response[r] = ErrorResponse(401, InvalidTokenDetail)
               /\ (BearerToken(request[r]) /\ token.form = "unprocessable") =>
                      response[r] = ErrorResponse(401, AuthFailedDetail)

\* the listing requested with an expired token, answered "Session expired"
C2_Witness ==
    \E r \in Requests :
        /\ Done(r)
        /\ request[r].path = PathListing
        /\ BearerToken(request[r])
        /\ request[r].authorization.token.expired
        /\ response[r].status = 401
        /\ response[r].detail = SessionExpiredDetail

\* the request is past the gate on the way to the listing, holds a store
\* session or has run the query
BusinessReached(r) ==
    \/ pc[r] \in {"get_db", "get_current_user", "query_params", "handler"}
    \/ session[r] # "none"
    \/ outcome[r] # NoOutcome

\* C3: the store session and the listing's business logic are reached only
\* by a request whose bearer token the Token Validator accepted; a listing
\* request without such a token ends with the gate's 401, no session
\* acquired and no query run.
C3_GateGuardsBusinessLogic ==
    \A r \in Requests :
        /\ BusinessReached(r) => TokenAccepted(request[r])
        /\ (Done(r) /\ request[r].path = PathListing /\ ~TokenAccepted(request[r])) =>
              /\ response[r].status = 401
              /\ session[r] = "none"
              /\ outcome[r] = NoOutcome

\* the query has run for a request with an accepted token
C3_Witness ==
    \E r \in Requests :
        /\ outcome[r] # NoOutcome
        /\ TokenAccepted(request[r])

\* C4: a request to a non-exempt path whose bearer token the Token Validator
\* accepts, whatever its payload, has the payload attached as the principal,
\* is never answered 401, and on the listing path reaches the business logic.
C4_AcceptedTokenProceeds ==
    \A r \in Requests :
        (request[r].path \in NonExemptPaths /\ TokenAccepted(request[r])) =>
            /\ pc[r] \notin {"idle", "gate"} =>
                  user[r] = Some(request[r].authorization.token.payload)
            /\ Done(r) => response[r].status # 401
            /\ (Done(r) /\ request[r].path = PathListing /\ session[r] # "failed"
                    /\ LangValid(LangArgument(request[r].lang))) =>
                  outcome[r] # NoOutcome

\* C5: a store-level failure of the query gives 500 with "Failed to fetch
\* notification types. Please try again later." and no notification_types
\* list; any other failure inside the operation gives 500 with "Internal
\* server error. Please try again later.".
C5_FailuresTranslated ==
    \A r \in Requests :
        /\ outcome[r].raises = "SQLAlchemyError" =>
              /\ response[r] = ErrorResponse(500, FetchFailedDetail)
              /\ ~Listed(r)
              /\ Items(r) = <<>>
        /\ (\/ outcome[r].raises = "Exception"
            \/ \E i \in 1..Len(Fetched(r)) :
                  /\ Fetched(r)[i].available
                  /\ Fetched(r)[i].descriptions.type # "object") =>
              response[r] = ErrorResponse(500, InternalErrorDetail)

\* the query of an authenticated listing request raised a store failure
C5_Witness ==
    \E r \in Requests :
        /\ Done(r)
        /\ TokenAccepted(request[r])
        /\ outcome[r].raises = "SQLAlchemyError"
        /\ response[r].status = 500

\* C6: when the session provider raises before the handler body runs, the
\* response is 500 and its detail contains "Failed to fetch notification
\* types" (FetchFailedDetail is the one detail of the program that does).
C6_SessionFailureDetail ==
    \A r \in Requests :
        session[r] = "failed" =>
            /\ response[r].status = 500
            /\ response[r].detail = FetchFailedDetail

\* C8: a request on an allow-listed path is never answered 401, whatever its
\* credentials, and GET /health is answered 200 with {"status": "ok"}.
C8_ExemptPathsPassGate ==
    \A r \in Requests :
        (Done(r) /\ request[r].path \in ExemptPaths) =>
            /\ response[r].status # 401
            /\ response[r].kind \in {"health", "docs"} \/ response[r].status = 404
            /\ request[r].path = PathHealth => response[r] = HealthResponse

\* GET /health without credentials, answered 200 {"status": "ok"}
C8_Witness ==
    \E r \in Requests :
        /\ Done(r)
        /\ request[r].path = PathHealth
        /\ ~request[r].authorization.present
        /\ response[r] = HealthResponse

(***************************************************************************)
(* Properties of get_description, under SpecDescription.                   *)
(***************************************************************************)
HasKey(d, k) == d.type = "object" /\ k \in DOMAIN d.entries
HasText(d, k) == HasKey(d, k) /\ d.entries[k] # ""

\* C9 as stated: get_description(lang) returns descriptions[lang] whenever
\* the key lang is present, otherwise descriptions["en"] whenever the key
\* "en" is present, otherwise the empty string, and never raises.
C9_ByKeyPresence ==
    accessor.called =>
        /\ accessor.raises = ""
        /\ accessor.value =
              IF HasKey(accessor.descriptions, accessor.lang)
              THEN accessor.descriptions.entries[accessor.lang]
              ELSE IF HasKey(accessor.descriptions, "en")
              THEN accessor.descriptions.entries["en"]
              ELSE ""

\* C9 as amended: get_description(lang) returns descriptions[lang] whenever
\* the key lang is present with a non-empty text, otherwise descriptions["en"]
\* whenever "en" is present with a non-empty text, otherwise the empty
\* string, and never raises, the mapping empty or missing included.
C9_ByNonEmptyText ==
    accessor.called =>
        /\ accessor.raises = ""
        /\ accessor.value =
              IF HasText(accessor.descriptions, accessor.lang)
              THEN accessor.descriptions.entries[accessor.lang]
              ELSE IF HasText(accessor.descriptions, "en")
              THEN accessor.descriptions.entries["en"]
              ELSE ""

\* the accessor called for French on a record whose French text is empty
\* and whose English text is not: the English text is returned
C9_Witness ==
    /\ accessor.called
    /\ accessor.lang = "fr"
    /\ HasKey(accessor.descriptions, "fr")
    /\ ~HasText(accessor.descriptions, "fr")
    /\ HasText(accessor.descriptions, "en")
    /\ accessor.value = accessor.descriptions.entries["en"]

(***************************************************************************)
(* Properties of the store sessions, under SpecSessions.                   *)
(***************************************************************************)
\* the request is between the acquisition of its session and its response
HoldsSession(r) == pc[r] \in {"get_current_user", "query_params", "handler"}

\* C11: every request that reaches the listing endpoint gets a session of
\* its own, which is open for as long as the request is served, whatever
\* the other requests do, is closed only after the request's response, and
\* once opened is eventually closed, on every exit path: the session of a
\* request does not stay open after its response.
C11_SessionReleased ==
    \A r \in ConcurrentRequests :
        /\ [](HoldsSession(r) => session[r] = "open")
        /\ [](session[r] = "closed" => pc[r] = "done")
        /\ [](pc[r] = "done" /\ request[r].path = PathListing /\ response[r].status # 401
                => session[r] # "none")
        /\ (session[r] = "open" ~> session[r] = "closed")

\* one request answered 401 by get_current_user with its session closed,
\* while the other is in the handler with its session open
C11_Witness ==
    /\ session["r1"] = "closed"
    /\ response["r1"].status = 401
    /\ pc["r2"] = "handler"
    /\ session["r2"] = "open"

====
